---- MODULE Spec2Model ----
(***************************************************************************)
(* State-synchronisation core of the game: the authoritative server        *)
(* (src/api/socket/index.js) and the client networking layer               *)
(* (src/unnamed/part_000, the Networking class, driven by the frame loop   *)
(* of src/unnamed/part_001).                                               *)
(*                                                                         *)
(* Numbers.  JavaScript numbers are modelled in fixed point:               *)
(*   time       milliseconds                                               *)
(*   position   1/PosScale metre (PosScale = 20000, i.e. 0.00005 m), the   *)
(*              unit in which one on-foot step, speed * dt * 0.1 with      *)
(*              speed a multiple of 10.5 m/s and dt in ms, is an integer   *)
(*   car speed  mm/s                                                       *)
(*   yaw        microradians                                               *)
(*   sin, cos   thousandths                                                *)
(***************************************************************************)
EXTENDS Integers, Sequences, FiniteSets, TLC

VARIABLES
    \* the server, src/api/socket/index.js
    players,        \* state.players: socket id -> player record
    cars,           \* state.cars: car id -> car record
    room,           \* state.rooms[ROOM_ID].players
    clock,          \* the server's clock, ms (performance.now / Date.now)
    ticks,          \* number of gameLoop executions so far
    accepted,       \* number of clientInput messages accepted so far
    last,           \* the handler that ran last, with what it consumed and emitted
    \* a second server fed the same commands (for the determinism property)
    replicaB,
    \* the client of socket LocalId, src/unnamed/part_000 and part_001
    net,            \* messages emitted to the client and not yet handled
    localPlayer,    \* game.localPlayer
    inputSequence,  \* Networking.inputSequence
    pendingInputs,  \* Networking.pendingInputs
    serverStates,   \* Networking.serverStates
    remotePlayers,  \* Networking.remotePlayers: id -> the entry last applied
    positionBuffer, \* positionBuffer of each remote player: id -> samples
    gameCars,       \* game.cars: id -> the entry last applied
    newest,         \* the gameSnapshot of greatest timestamp handled so far
    \* the server process, src/api/socket/index.js (module.exports)
    io,               \* whether the socket.io server has been created
    gameLoopInterval, \* the handle of the tick timer, Null before setInterval
    timers,           \* number of interval timers started so far
    running           \* number of gameLoop executions in progress

serverVars == <<players, cars, room, clock, ticks, accepted, last>>

clientVars == <<net, localPlayer, inputSequence, pendingInputs, serverStates,
                remotePlayers, positionBuffer, gameCars, newest>>

bootVars == <<io, gameLoopInterval, timers, running>>

vars == <<players, cars, room, clock, ticks, accepted, last, replicaB,
          net, localPlayer, inputSequence, pendingInputs, serverStates,
          remotePlayers, positionBuffer, gameCars, newest,
          io, gameLoopInterval, timers, running>>

----------------------------------------------------------------------------
(* Bounds of the model *)

MaxTicks == 2
MaxInputs == 2
MaxWalk == 10

(* Sequence numbers a client may put in a command: the server takes any *)
SeqNumbers == {1, 2}

(* Socket ids of the connections that may exist, and what a client may name
   as a vehicle: car2 is not a key of state.cars. *)
SocketIds == {"p1", "p2"}
VehicleArgs == {"car1", "car2"}

(* null / undefined *)
Null == "null"
Undefined == 0 - 1

(* Intervals between two gameLoop executions, ms (TICK_RATE_MS is 33.3). *)
TickIntervals == {33}

(* deltaTime fields a client puts in a command, ms: a normal frame and a
   frame after the page was in the background. *)
FrameDeltas == {16, 1000}

(* deltaTime field of a command sent by a client the model does not follow *)
InputDeltas == {16}

----------------------------------------------------------------------------
(* Program constants *)

PosScale == 2 * 1000 * 10

\* MAX_PLAYER_SPEED = 10.5, in half metres per second
MAX_PLAYER_SPEED == 21
\* MAX_CAR_SPEED = 61 m/s
MAX_CAR_SPEED == 61
MAX_ENGINE_FORCE == 15000
CAR_MASS == 1000
\* CAR_LENGTH = 4.5, in tenths of a metre
CAR_LENGTH == 45
\* MAX_STEER_ANGLE = 0.6, in tenths of a radian
MAX_STEER_ANGLE == 6
\* the steering threshold 0.5 m/s, in mm/s
MinSteerSpeed == 500

CarStart == [x |-> 50 * PosScale, y |-> (3 * PosScale) \div 4, z |-> 50 * PosScale]

(* Math.random() * 50 - 25 for x and z: two sample spawn points *)
SpawnPoints == { [x |-> 0, y |-> 0, z |-> 0] }

(* Key states of a command (getCurrentInput): a sample *)
KeySets ==
    { [forward |-> TRUE,  backward |-> FALSE, left |-> FALSE, right |-> FALSE, shift |-> FALSE],
      [forward |-> FALSE, backward |-> TRUE,  left |-> FALSE, right |-> TRUE,  shift |-> TRUE] }

InputPacket(keys, seq, dt) ==
    [forward |-> keys.forward, backward |-> keys.backward, left |-> keys.left,
     right |-> keys.right, shift |-> keys.shift, sequence |-> seq, deltaTime |-> dt]

----------------------------------------------------------------------------
(* Arithmetic helpers *)

Abs(a) == IF a < 0 THEN 0 - a ELSE a

Sign(a) == IF a > 0 THEN 1 ELSE IF a < 0 THEN 0 - 1 ELSE 0

\* division rounding toward zero
TDiv(a, b) == IF a >= 0 THEN a \div b ELSE 0 - ((0 - a) \div b)

Min(a, b) == IF a < b THEN a ELSE b

Max(a, b) == IF a > b THEN a ELSE b

\* pi in milliradians (an even number, so that HalfPi is exact)
PiMrad == 3142

HalfPiMrad == PiMrad \div 2

\* an angle in milliradians brought into (-pi, pi]
WrapMrad(a) ==
    LET m == a % (2 * PiMrad)
    IN  IF m > PiMrad THEN m - 2 * PiMrad ELSE m

\* Bhaskara's approximation of cos on [-pi/2, pi/2], in thousandths
CosCore(x) ==
    (((PiMrad * PiMrad - 4 * x * x) \div 10) * 1000) \div ((PiMrad * PiMrad + x * x) \div 10)

\* Math.cos of a yaw in microradians, in thousandths
Cos(yaw) ==
    LET x == WrapMrad(TDiv(yaw, 1000))
    IN  IF Abs(x) <= HalfPiMrad THEN CosCore(x) ELSE 0 - CosCore(PiMrad - Abs(x))

\* Math.sin of a yaw in microradians, in thousandths
Sin(yaw) == Cos(yaw - HalfPiMrad * 1000)

\* Math.sqrt(dx*dx + dz*dz) > limit, without leaving 32 bits
FartherThan(dx, dz, limit) ==
    \/ Abs(dx) > limit
    \/ Abs(dz) > limit
    \/ dx * dx + dz * dz > limit * limit

----------------------------------------------------------------------------
(* The server: state records *)

\* the player state created by the connection handler
NewPlayer(spawn) ==
    [p |-> spawn,
     lastP |-> [x |-> spawn.x, z |-> spawn.z],
     v |-> [x |-> 0, y |-> 0, z |-> 0],
     y |-> 0,
     h |-> 100,
     d |-> FALSE,
     vId |-> Null,
     pInputs |-> <<>>,
     lastProcessedInput |-> 0]

\* state.cars as the module is loaded
InitCars ==
    [c \in {"car1"} |->
        [id |-> c, p |-> CarStart, y |-> 0, s |-> 0, dId |-> Null,
         pInputs |-> <<>>, lastProcessedInput |-> 0]]

\* the input the car branch uses when the driver's queue is empty; it has no
\* sequence field, so reading input.sequence gives undefined
DefaultInput ==
    [forward |-> FALSE, backward |-> FALSE, left |-> FALSE, right |-> FALSE,
     shift |-> FALSE, sequence |-> Undefined, deltaTime |-> Undefined]

----------------------------------------------------------------------------
(* simulatePhysics, player branch *)

\* the movement with forward adding to z instead of subtracting
MovedForwardPlus(player, input, deltaTime) ==
    LET speed == MAX_PLAYER_SPEED * (IF input.shift THEN 2 ELSE 1)
        mvz == (IF input.forward THEN speed ELSE 0) + (IF input.backward THEN speed ELSE 0)
        mvx == (IF input.left THEN 0 - speed ELSE 0) + (IF input.right THEN speed ELSE 0)
        sinYaw == Sin(player.y)
        cosYaw == Cos(player.y)
        moveX == TDiv(mvx * cosYaw - mvz * sinYaw, 1000)
        moveZ == TDiv(mvx * sinYaw + mvz * cosYaw, 1000)
        yg == IF player.p.y > 0 THEN player.p.y - (30 * deltaTime * PosScale) \div 1000
                                ELSE player.p.y
    IN  [x |-> player.p.x + moveX * deltaTime,
         y |-> IF yg < 0 THEN 0 ELSE yg,
         z |-> player.p.z + moveZ * deltaTime]

\* the position after the movement and gravity of one command, before the
\* sanity check
Moved(player, input, deltaTime) ==
    LET speed == MAX_PLAYER_SPEED * (IF input.shift THEN 2 ELSE 1)
        mvz == (IF input.forward THEN 0 - speed ELSE 0) + (IF input.backward THEN speed ELSE 0)
        mvx == (IF input.left THEN 0 - speed ELSE 0) + (IF input.right THEN speed ELSE 0)
        sinYaw == Sin(player.y)
        cosYaw == Cos(player.y)
        moveX == TDiv(mvx * cosYaw - mvz * sinYaw, 1000)
        moveZ == TDiv(mvx * sinYaw + mvz * cosYaw, 1000)
        yg == IF player.p.y > 0 THEN player.p.y - (30 * deltaTime * PosScale) \div 1000
                                ELSE player.p.y
    IN  [x |-> player.p.x + moveX * deltaTime,
         y |-> IF yg < 0 THEN 0 ELSE yg,
         z |-> player.p.z + moveZ * deltaTime]

\* distance / deltaTime > MAX_PLAYER_SPEED * 2, the distance being that of
\* position m from the last accepted position
TooFast(player, m, deltaTime) ==
    FartherThan(m.x - player.lastP.x, m.z - player.lastP.z,
                (MAX_PLAYER_SPEED * deltaTime * PosScale) \div 1000)

\* one iteration without the sanity check on speed
PlayerStepNoRevert(player, input, deltaTime) ==
    LET m == Moved(player, input, deltaTime)
    IN  [player EXCEPT !.p = m,
                       !.lastP = [x |-> m.x, z |-> m.z],
                       !.lastProcessedInput = input.sequence]

\* one iteration of the while loop: the player after one command, deltaTime
\* being the argument of simulatePhysics (the interval between two ticks)
PlayerStep(player, input, deltaTime) ==
    LET m == Moved(player, input, deltaTime)
        reject == TooFast(player, m, deltaTime)
        x2 == IF reject THEN player.lastP.x ELSE m.x
        z2 == IF reject THEN player.lastP.z ELSE m.z
    IN  [player EXCEPT !.p = [x |-> x2, y |-> m.y, z |-> z2],
                       !.lastP = [x |-> x2, z |-> z2],
                       !.lastProcessedInput = input.sequence]

\* the while loop replaced by an if: one command per tick
DrainInputsOne(player, deltaTime) ==
    IF player.pInputs = <<>> THEN player
    ELSE PlayerStep([player EXCEPT !.pInputs = Tail(player.pInputs)],
                    Head(player.pInputs), deltaTime)

\* the while loop: every queued command, oldest first
RECURSIVE DrainInputs(_, _)
DrainInputs(player, deltaTime) ==
    IF player.pInputs = <<>> THEN player
    ELSE DrainInputs(
            PlayerStep([player EXCEPT !.pInputs = Tail(player.pInputs)],
                       Head(player.pInputs), deltaTime),
            deltaTime)

\* the loop over state.players without the test of player.d
SimulatePlayersNoSkip(ps, deltaTime) ==
    [id \in DOMAIN ps |-> DrainInputs(ps[id], deltaTime)]

\* the loop over state.players; a driving player is skipped
SimulatePlayers(ps, deltaTime) ==
    [id \in DOMAIN ps |-> IF ps[id].d THEN ps[id] ELSE DrainInputs(ps[id], deltaTime)]

----------------------------------------------------------------------------
(* simulatePhysics, car branch *)

\* the physics step without the record of the input's sequence
CarStepNoAck(car, input, deltaTime) ==
    LET gasInput == IF input.backward THEN 0 - 1 ELSE IF input.forward THEN 1 ELSE 0
        \* forces in millinewtons; resistance = s * 0.5 * s * 0.1
        resistance == ((car.s \div 10) * (car.s \div 10)) \div 200
        totalForce == gasInput * MAX_ENGINE_FORCE * 1000 - Sign(car.s) * resistance
        \* acceleration * deltaTime, mm/s
        dv == TDiv(TDiv(totalForce, CAR_MASS) * deltaTime, 1000)
        s1 == Min(Max(car.s + dv, 0 - MAX_CAR_SPEED * 1000), MAX_CAR_SPEED * 1000)
        steerInput == (IF input.left THEN 1 ELSE 0) + (IF input.right THEN 0 - 1 ELSE 0)
        \* turnRate * deltaTime = steeringAngle * s / CAR_LENGTH * 0.5 * deltaTime
        turn == TDiv(steerInput * MAX_STEER_ANGLE * s1 * deltaTime, CAR_LENGTH * 2)
        y1 == IF Abs(s1) > MinSteerSpeed THEN car.y + turn ELSE car.y
        dx == TDiv(TDiv(Sin(y1) * s1, 1000) * deltaTime, 50)
        dz == TDiv(TDiv(Cos(y1) * s1, 1000) * deltaTime, 50)
    IN  [car EXCEPT !.s = s1,
                    !.y = y1,
                    !.p = [x |-> car.p.x + dx, y |-> (3 * PosScale) \div 4, z |-> car.p.z + dz]]

\* the physics step without the clamp of the speed
CarStepNoClamp(car, input, deltaTime) ==
    LET gasInput == IF input.backward THEN 0 - 1 ELSE IF input.forward THEN 1 ELSE 0
        \* forces in millinewtons; resistance = s * 0.5 * s * 0.1
        resistance == ((car.s \div 10) * (car.s \div 10)) \div 200
        totalForce == gasInput * MAX_ENGINE_FORCE * 1000 - Sign(car.s) * resistance
        \* acceleration * deltaTime, mm/s
        dv == TDiv(TDiv(totalForce, CAR_MASS) * deltaTime, 1000)
        s1 == car.s + dv
        steerInput == (IF input.left THEN 1 ELSE 0) + (IF input.right THEN 0 - 1 ELSE 0)
        \* turnRate * deltaTime = steeringAngle * s / CAR_LENGTH * 0.5 * deltaTime
        turn == TDiv(steerInput * MAX_STEER_ANGLE * s1 * deltaTime, CAR_LENGTH * 2)
        y1 == IF Abs(s1) > MinSteerSpeed THEN car.y + turn ELSE car.y
        dx == TDiv(TDiv(Sin(y1) * s1, 1000) * deltaTime, 50)
        dz == TDiv(TDiv(Cos(y1) * s1, 1000) * deltaTime, 50)
    IN  [car EXCEPT !.s = s1,
                    !.y = y1,
                    !.p = [x |-> car.p.x + dx, y |-> (3 * PosScale) \div 4, z |-> car.p.z + dz],
                    !.lastProcessedInput = input.sequence]

\* the car after one physics step with the given input
CarStep(car, input, deltaTime) ==
    LET gasInput == IF input.backward THEN 0 - 1 ELSE IF input.forward THEN 1 ELSE 0
        \* forces in millinewtons; resistance = s * 0.5 * s * 0.1
        resistance == ((car.s \div 10) * (car.s \div 10)) \div 200
        totalForce == gasInput * MAX_ENGINE_FORCE * 1000 - Sign(car.s) * resistance
        \* acceleration * deltaTime, mm/s
        dv == TDiv(TDiv(totalForce, CAR_MASS) * deltaTime, 1000)
        s1 == Min(Max(car.s + dv, 0 - MAX_CAR_SPEED * 1000), MAX_CAR_SPEED * 1000)
        steerInput == (IF input.left THEN 1 ELSE 0) + (IF input.right THEN 0 - 1 ELSE 0)
        \* turnRate * deltaTime = steeringAngle * s / CAR_LENGTH * 0.5 * deltaTime
        turn == TDiv(steerInput * MAX_STEER_ANGLE * s1 * deltaTime, CAR_LENGTH * 2)
        y1 == IF Abs(s1) > MinSteerSpeed THEN car.y + turn ELSE car.y
        dx == TDiv(TDiv(Sin(y1) * s1, 1000) * deltaTime, 50)
        dz == TDiv(TDiv(Cos(y1) * s1, 1000) * deltaTime, 50)
    IN  [car EXCEPT !.s = s1,
                    !.y = y1,
                    !.p = [x |-> car.p.x + dx, y |-> (3 * PosScale) \div 4, z |-> car.p.z + dz],
                    !.lastProcessedInput = input.sequence]

\* what the car branch takes for a car: the head of the driver's queue, or none
CarTakes(ps, car) ==
    IF car.dId # Null /\ car.dId \in DOMAIN ps /\ ps[car.dId].pInputs # <<>>
    THEN <<Head(ps[car.dId].pInputs)>>
    ELSE <<>>

\* the body of the loop without the test of car.dId: a car without a driver
\* is stepped with the default input
SimulateCarNoGuard(ps, car, deltaTime) ==
    IF car.dId # Null /\ car.dId \notin DOMAIN ps THEN [car EXCEPT !.dId = Null]
    ELSE LET q == CarTakes(ps, car)
         IN  CarStep(car, IF q = <<>> THEN DefaultInput ELSE q[1], deltaTime)

\* the body of the loop over state.cars for one car
SimulateCar(ps, car, deltaTime) ==
    IF car.dId = Null THEN car
    ELSE IF car.dId \notin DOMAIN ps THEN [car EXCEPT !.dId = Null]
    ELSE LET q == CarTakes(ps, car)
         IN  CarStep(car, IF q = <<>> THEN DefaultInput ELSE q[1], deltaTime)

\* the car branch reading the head of the driver's queue without shifting it
ShiftDriversNone(ps, cs) == ps

\* the car branch emptying the driver's queue instead of shifting it once
ShiftDriversAll(ps, cs) ==
    [id \in DOMAIN ps |->
        IF \E c \in DOMAIN cs : cs[c].dId = id /\ ps[id].pInputs # <<>>
        THEN [ps[id] EXCEPT !.pInputs = <<>>]
        ELSE ps[id]]

\* the drivers' queues after the car branch: one command shifted per driven car
ShiftDrivers(ps, cs) ==
    [id \in DOMAIN ps |->
        IF \E c \in DOMAIN cs : cs[c].dId = id /\ ps[id].pInputs # <<>>
        THEN [ps[id] EXCEPT !.pInputs = Tail(ps[id].pInputs)]
        ELSE ps[id]]

\* simulatePhysics(deltaTime): the new players and cars
SimulatePhysics(ps, cs, deltaTime) ==
    LET ps1 == SimulatePlayers(ps, deltaTime)
    IN  [players |-> ShiftDrivers(ps1, cs),
         cars |-> [c \in DOMAIN cs |-> SimulateCar(ps1, cs[c], deltaTime)]]

----------------------------------------------------------------------------
(* gameLoop *)

\* the gameSnapshot assembled from the state after the physics step
Snapshot(ps, cs, now) ==
    [players |-> [id \in DOMAIN ps |->
                    [p |-> ps[id].p, y |-> ps[id].y, h |-> ps[id].h, d |-> ps[id].d,
                     vId |-> ps[id].vId, lastProcessedInput |-> ps[id].lastProcessedInput]],
     cars |-> [c \in DOMAIN cs |->
                    [p |-> cs[c].p, y |-> cs[c].y, s |-> cs[c].s, dId |-> cs[c].dId]],
     timestamp |-> now]

\* what a handler other than gameLoop consumes: nothing
NoPops == [id \in SocketIds |-> <<>>]

NoCarPops == [c \in DOMAIN InitCars |-> <<>>]

Did(op, id, arg) ==
    [op |-> op, id |-> id, arg |-> arg, dt |-> 0,
     pPop |-> NoPops, cPop |-> NoCarPops, snap |-> <<>>]

\* the commands the player branch shifted off each queue: ps before the loop
\* over state.players, ps1 after it
PlayerPops(ps, ps1) ==
    [id \in SocketIds |->
        IF id \in DOMAIN ps
        THEN SubSeq(ps[id].pInputs, 1, Len(ps[id].pInputs) - Len(ps1[id].pInputs))
        ELSE <<>>]

\* gameLoop that assembles the snapshot before it runs the physics step
GameLoopSnapFirst(deltaTime) ==
    LET r == SimulatePhysics(players, cars, deltaTime)
        ps1 == SimulatePlayers(players, deltaTime)
    IN  /\ ticks < MaxTicks
        /\ players' = r.players
        /\ cars' = r.cars
        /\ clock' = clock + deltaTime
        /\ ticks' = ticks + 1
        /\ last' = [op |-> "tick", id |-> Null, arg |-> Null, dt |-> deltaTime,
                    pPop |-> PlayerPops(players, ps1),
                    cPop |-> [c \in DOMAIN cars |-> CarTakes(ps1, cars[c])],
                    snap |-> <<Snapshot(players, cars, clock + deltaTime)>>]
        /\ UNCHANGED <<room, accepted>>

\* gameLoop: deltaTime is the time since the previous execution
GameLoop(deltaTime) ==
    LET r == SimulatePhysics(players, cars, deltaTime)
        ps1 == SimulatePlayers(players, deltaTime)
    IN  /\ ticks < MaxTicks
        /\ players' = r.players
        /\ cars' = r.cars
        /\ clock' = clock + deltaTime
        /\ ticks' = ticks + 1
        /\ last' = [op |-> "tick", id |-> Null, arg |-> Null, dt |-> deltaTime,
                    pPop |-> PlayerPops(players, ps1),
                    cPop |-> [c \in DOMAIN cars |-> CarTakes(ps1, cars[c])],
                    snap |-> <<Snapshot(r.players, r.cars, clock + deltaTime)>>]
        /\ UNCHANGED <<room, accepted>>

----------------------------------------------------------------------------
(* Socket handlers *)

\* io.on('connection'): a new socket joins the room and gets a player state
OnConnection(id, spawn) ==
    /\ id \notin room
    /\ id \notin DOMAIN players
    /\ room' = room \cup {id}
    /\ players' = [i \in DOMAIN players \cup {id} |->
                     IF i = id THEN NewPlayer(spawn) ELSE players[i]]
    /\ last' = Did("connection", id, Null)
    /\ UNCHANGED <<cars, clock, ticks, accepted>>

\* socket.on('clientInput')
OnClientInput(id, input) ==
    /\ id \in room
    /\ accepted < MaxInputs
    /\ players' = IF id \in DOMAIN players
                  THEN [players EXCEPT ![id].pInputs = Append(@, input)]
                  ELSE players
    /\ accepted' = accepted + 1
    /\ last' = Did("clientInput", id, Null)
    /\ UNCHANGED <<cars, room, clock, ticks>>

\* enterVehicle without the lock: the test of car.dId is dropped
EnterVehicleNoLock(id, carId) ==
    IF carId \in DOMAIN cars
    THEN /\ cars' = [cars EXCEPT ![carId].dId = id]
         /\ players' = [players EXCEPT ![id].d = TRUE,
                                       ![id].vId = carId,
                                       ![id].p = cars[carId].p]
    ELSE UNCHANGED <<players, cars>>

\* enterVehicle that moves the player to the car before it tests the lock
EnterVehicleSnapFirst(id, carId) ==
    IF carId \in DOMAIN cars /\ cars[carId].dId = Null
    THEN /\ cars' = [cars EXCEPT ![carId].dId = id]
         /\ players' = [players EXCEPT ![id].d = TRUE,
                                       ![id].vId = carId,
                                       ![id].p = cars[carId].p]
    ELSE /\ cars' = cars
         /\ players' = IF carId \in DOMAIN cars
                       THEN [players EXCEPT ![id].p = cars[carId].p]
                       ELSE players

\* enterVehicle that forgets to set player.vId
EnterVehicleNoVId(id, carId) ==
    IF carId \in DOMAIN cars /\ cars[carId].dId = Null
    THEN /\ cars' = [cars EXCEPT ![carId].dId = id]
         /\ players' = [players EXCEPT ![id].d = TRUE,
                                       ![id].p = cars[carId].p]
    ELSE UNCHANGED <<players, cars>>

\* the enterVehicle branch of socket.on('clientAction')
EnterVehicle(id, carId) ==
    IF carId \in DOMAIN cars /\ cars[carId].dId = Null
    THEN /\ cars' = [cars EXCEPT ![carId].dId = id]
         /\ players' = [players EXCEPT ![id].d = TRUE,
                                       ![id].vId = carId,
                                       ![id].p = cars[carId].p]
    ELSE UNCHANGED <<players, cars>>

\* exitVehicle that ejects the player onto the car instead of beside it
ExitVehicleNoOffset(id) ==
    LET carId == players[id].vId
    IN  IF carId \in DOMAIN cars /\ cars[carId].dId = id
        THEN /\ cars' = [cars EXCEPT ![carId].dId = Null]
             /\ players' = [players EXCEPT ![id].d = FALSE,
                                           ![id].vId = Null,
                                           ![id].p = [x |-> cars[carId].p.x,
                                                      y |-> 0,
                                                      z |-> cars[carId].p.z]]
        ELSE UNCHANGED <<players, cars>>

\* the exitVehicle branch of socket.on('clientAction')
ExitVehicle(id) ==
    LET carId == players[id].vId
    IN  IF carId \in DOMAIN cars /\ cars[carId].dId = id
        THEN /\ cars' = [cars EXCEPT ![carId].dId = Null]
             /\ players' = [players EXCEPT ![id].d = FALSE,
                                           ![id].vId = Null,
                                           ![id].p = [x |-> cars[carId].p.x + 2 * PosScale,
                                                      y |-> 0,
                                                      z |-> cars[carId].p.z + 2 * PosScale]]
        ELSE UNCHANGED <<players, cars>>

\* socket.on('clientAction'); the completeMission branch only relays a chat
\* line and touches no state
OnClientAction(id, type, carId) ==
    /\ id \in room
    /\ IF id \notin DOMAIN players THEN UNCHANGED <<players, cars>>
       ELSE IF type = "enterVehicle" THEN EnterVehicle(id, carId)
       ELSE IF type = "exitVehicle" THEN ExitVehicle(id)
       ELSE UNCHANGED <<players, cars>>
    /\ last' = Did(type, id, IF type = "enterVehicle" THEN carId ELSE Null)
    /\ UNCHANGED <<room, clock, ticks, accepted>>

\* disconnect that removes the player and leaves the car locked
OnDisconnectNoRelease(id) ==
    /\ id \in room
    /\ room' = room \ {id}
    /\ cars' = cars
    /\ players' = [i \in DOMAIN players \ {id} |-> players[i]]
    /\ last' = Did("disconnect", id,
                   IF id \in DOMAIN players /\ players[id].d THEN players[id].vId ELSE Null)
    /\ UNCHANGED <<clock, ticks, accepted>>

\* socket.on('disconnect')
OnDisconnect(id) ==
    /\ id \in room
    /\ room' = room \ {id}
    /\ cars' = IF id \in DOMAIN players /\ players[id].d /\ players[id].vId \in DOMAIN cars
               THEN [cars EXCEPT ![players[id].vId].dId = Null]
               ELSE cars
    /\ players' = [i \in DOMAIN players \ {id} |-> players[i]]
    /\ last' = Did("disconnect", id,
                   IF id \in DOMAIN players /\ players[id].d THEN players[id].vId ELSE Null)
    /\ UNCHANGED <<clock, ticks, accepted>>

----------------------------------------------------------------------------
(* The server on its own: any client may send any message at any time *)

\* game.localPlayer before initialState arrives
NoLocal == [id |-> Null]

InitServer ==
    /\ players = <<>>
    /\ cars = InitCars
    /\ room = {}
    /\ clock = 0
    /\ ticks = 0
    /\ accepted = 0
    /\ last = Did("init", Null, Null)

InitClient ==
    /\ net = {}
    /\ localPlayer = NoLocal
    /\ inputSequence = 0
    /\ pendingInputs = <<>>
    /\ serverStates = <<>>
    /\ remotePlayers = <<>>
    /\ positionBuffer = <<>>
    /\ gameCars = [c \in {"car1"} |->
                     [p |-> [x |-> 50 * PosScale, y |-> 0, z |-> 50 * PosScale],
                      y |-> 0, s |-> 0, dId |-> Null]]
    /\ newest = <<>>

\* the process once the first HTTP request has created the server and
\* started the timer
InitBooted ==
    /\ io = TRUE
    /\ gameLoopInterval = 1
    /\ timers = 1
    /\ running = 0

Init ==
    /\ InitServer
    /\ InitClient
    /\ InitBooted
    /\ replicaB = <<>>

Next ==
    \/ \E id \in SocketIds, spawn \in SpawnPoints :
            OnConnection(id, spawn) /\ UNCHANGED <<clientVars, replicaB, bootVars>>
    \/ \E id \in SocketIds, k \in KeySets, seq \in SeqNumbers, dt \in InputDeltas :
            OnClientInput(id, InputPacket(k, seq, dt)) /\ UNCHANGED <<clientVars, replicaB, bootVars>>
    \/ \E id \in SocketIds, carId \in VehicleArgs :
            OnClientAction(id, "enterVehicle", carId) /\ UNCHANGED <<clientVars, replicaB, bootVars>>
    \/ \E id \in SocketIds :
            OnClientAction(id, "exitVehicle", Null) /\ UNCHANGED <<clientVars, replicaB, bootVars>>
    \/ \E id \in SocketIds : OnDisconnect(id) /\ UNCHANGED <<clientVars, replicaB, bootVars>>
    \/ \E dt \in TickIntervals : GameLoop(dt) /\ UNCHANGED <<clientVars, replicaB, bootVars>>

Spec == Init /\ [][Next]_vars

----------------------------------------------------------------------------
(* Vehicle occupancy *)

Drivers(c) == {id \in DOMAIN players : players[id].d /\ players[id].vId = c}

\* C1: in every reachable state each vehicle has at most one player with
\* d = true and vId = that vehicle.
OccupancyExclusive ==
    \A c \in DOMAIN cars : Cardinality(Drivers(c)) <= 1

\* a second player asked for a car that the first one drives
OccupancyContended ==
    /\ last.op = "enterVehicle"
    /\ last.arg \in DOMAIN cars
    /\ Drivers(last.arg) # {}
    /\ last.id \notin Drivers(last.arg)

\* C2: a vehicle's dId is p exactly when p is in state.players with d = true
\* and vId = that vehicle; so a vehicle names no absent driver, and a player
\* drives at most one vehicle.
DriverIffPlayer ==
    /\ \A c \in DOMAIN cars, id \in SocketIds : (cars[c].dId = id) <=> (id \in Drivers(c))
    /\ \A c \in DOMAIN cars : cars[c].dId \in DOMAIN players \cup {Null}
    /\ \A id \in SocketIds : Cardinality({c \in DOMAIN cars : cars[c].dId = id}) <= 1

\* a tick looked up the driver of a driven car while another player is on foot
DriverLookedUp ==
    /\ last.op = "tick"
    /\ \E c \in DOMAIN cars : cars[c].dId # Null
    /\ \E id \in DOMAIN players : ~players[id].d

\* C3: an enterVehicle request for a vehicle whose dId is set changes nothing:
\* no vehicle, no player (flags, position, queue) and no room membership.
EnterOccupiedChangesNothing ==
    [][(/\ last'.op = "enterVehicle"
        /\ last'.arg \in DOMAIN cars
        /\ cars[last'.arg].dId # Null)
       => UNCHANGED <<players, cars, room, clock, ticks, accepted>>]_vars

\* the requester of the refused enterVehicle has a queued command and stands
\* away from the car
EnterRefused ==
    /\ last.op = "enterVehicle"
    /\ last.arg \in DOMAIN cars
    /\ cars[last.arg].dId \notin {Null, last.id}
    /\ players[last.id].pInputs # <<>>
    /\ players[last.id].p # cars[last.arg].p

\* C4: enterVehicle by p on an existing vehicle v succeeds exactly when v.dId
\* is unset; on success v.dId = p, p.d = true, p.vId = v and p stands at v's
\* position; and in a tick the player branch consumes no command of a player
\* who is driving.
EnterVehicleEffect ==
    [][/\ (last'.op = "enterVehicle" /\ last'.arg \in DOMAIN cars) =>
            IF cars[last'.arg].dId = Null
            THEN /\ cars'[last'.arg].dId = last'.id
                 /\ players'[last'.id].d
                 /\ players'[last'.id].vId = last'.arg
                 /\ players'[last'.id].p = cars'[last'.arg].p
            ELSE UNCHANGED <<players, cars>>
       /\ last'.op = "tick" =>
            \A id \in DOMAIN players : players[id].d => last'.pPop[id] = <<>>]_vars

\* a tick in which a driver had commands queued: the car branch took one
DriverCommandRouted ==
    /\ last.op = "tick"
    /\ \E c \in DOMAIN cars : last.cPop[c] # <<>> /\ cars[c].dId # Null

\* C5: exitVehicle by p takes effect only if p is the driver of the vehicle
\* p.vId; then the vehicle's dId is cleared, p.d = false, p.vId is cleared and
\* p stands at the vehicle's position plus (x+2, y=0, z+2); from a player who
\* is not a driver it leaves the server state unchanged.
ExitVehicleEffect ==
    [][last'.op = "exitVehicle" =>
        LET id == last'.id
            v == players[id].vId
        IN  IF v \in DOMAIN cars /\ cars[v].dId = id
            THEN /\ cars' = [cars EXCEPT ![v].dId = Null]
                 /\ ~players'[id].d
                 /\ players'[id].vId = Null
                 /\ players'[id].p = [x |-> cars[v].p.x + 2 * PosScale, y |-> 0,
                                      z |-> cars[v].p.z + 2 * PosScale]
            ELSE UNCHANGED <<players, cars, room, clock, ticks, accepted>>]_vars

\* a driver has left a car that had moved
ExitedMovedCar ==
    /\ last.op = "exitVehicle"
    /\ ~players[last.id].d
    /\ \E c \in DOMAIN cars :
          /\ cars[c].p # CarStart
          /\ players[last.id].p = [x |-> cars[c].p.x + 2 * PosScale, y |-> 0,
                                   z |-> cars[c].p.z + 2 * PosScale]

\* C6: when the driver of v disconnects, right after the handler v.dId is
\* unset (so the next enterVehicle for v succeeds), the player is gone from
\* state.players and from the room; a disconnect of a player who drives
\* nothing changes no vehicle.
DisconnectReleases ==
    [][last'.op = "disconnect" =>
        /\ last'.id \notin DOMAIN players'
        /\ last'.id \notin room'
        /\ \A c \in DOMAIN cars :
              IF cars[c].dId = last'.id
              THEN cars'[c] = [cars[c] EXCEPT !.dId = Null]
              ELSE cars'[c] = cars[c]]_vars

\* the driver disconnected while another player stays connected
DriverDisconnected ==
    /\ last.op = "disconnect"
    /\ last.arg \in DOMAIN cars
    /\ cars[last.arg].dId = Null
    /\ players # <<>>

----------------------------------------------------------------------------
(* Determinism: two servers that start in the same state and are sent the
   same commands in the same order, each ticking on its own schedule *)

\* intervals between two gameLoop executions under timer jitter, ms
TickJitter == {33, 50}

\* player p1 connected, on foot or at the wheel of car1, on both servers
InitDet ==
    /\ \E spawn \in SpawnPoints, driving \in BOOLEAN :
          /\ players = [id \in {"p1"} |->
                          IF driving
                          THEN [NewPlayer(spawn) EXCEPT !.d = TRUE, !.vId = "car1",
                                                        !.p = CarStart]
                          ELSE NewPlayer(spawn)]
          /\ cars = IF driving THEN [InitCars EXCEPT !["car1"].dId = "p1"] ELSE InitCars
    /\ room = {"p1"}
    /\ clock = 0
    /\ ticks = 0
    /\ accepted = 0
    /\ last = Did("init", Null, Null)
    /\ replicaB = [players |-> players, cars |-> cars, ticks |-> 0]
    /\ InitClient
    /\ InitBooted

\* the same clientInput message reaches both servers
DetInput(input) ==
    /\ OnClientInput("p1", input)
    /\ replicaB' = [replicaB EXCEPT !.players["p1"].pInputs = Append(@, input)]
    /\ UNCHANGED <<clientVars, bootVars>>

\* the first server runs gameLoop
DetTickA(deltaTime) ==
    /\ GameLoop(deltaTime)
    /\ UNCHANGED <<replicaB, bootVars, clientVars>>

\* the second server runs gameLoop
DetTickB(deltaTime) ==
    LET r == SimulatePhysics(replicaB.players, replicaB.cars, deltaTime)
    IN  /\ replicaB.ticks < MaxTicks
        /\ replicaB' = [players |-> r.players, cars |-> r.cars,
                        ticks |-> replicaB.ticks + 1]
        /\ UNCHANGED <<serverVars, clientVars, bootVars>>

NextDet ==
    \/ \E k \in KeySets, seq \in SeqNumbers, dt \in InputDeltas :
            DetInput(InputPacket(k, seq, dt))
    \/ \E dt \in TickJitter : DetTickA(dt)
    \/ \E dt \in TickJitter : DetTickB(dt)

SpecDet == InitDet /\ [][NextDet]_vars

\* position, yaw and speed of every player and vehicle
Kinematics(ps, cs) ==
    [players |-> [id \in DOMAIN ps |-> [p |-> ps[id].p, y |-> ps[id].y]],
     cars |-> [c \in DOMAIN cs |-> [p |-> cs[c].p, y |-> cs[c].y, s |-> cs[c].s]]]

\* C7: the same initial state and the same ordered commands give the same
\* player and vehicle state whatever the schedule of ticks: once both servers
\* have consumed every command, their states agree.
SameCommandsSameState ==
    (/\ players["p1"].pInputs = <<>>
     /\ replicaB.players["p1"].pInputs = <<>>)
    => Kinematics(players, cars) = Kinematics(replicaB.players, replicaB.cars)

----------------------------------------------------------------------------
(* The client of socket LocalId: the Networking class and the frame loop *)

LocalId == "p1"

MAX_STATE_BUFFER == 5

\* a property of an object, undefined when the object has none of that name
Field(obj, name) == IF name \in DOMAIN obj THEN obj[name] ELSE Undefined

\* a number used as a condition
Truthy(v) == v # Undefined /\ v # 0

\* a <= b where b may be undefined (the comparison is then false)
Leq(a, b) == b # Undefined /\ a <= b

\* position.distanceTo(serverPos) > limit
DistanceAbove(a, b, limit) ==
    \/ Abs(a.x - b.x) > limit
    \/ Abs(a.y - b.y) > limit
    \/ Abs(a.z - b.z) > limit
    \/ (a.x - b.x) * (a.x - b.x) + (a.y - b.y) * (a.y - b.y)
          + (a.z - b.z) * (a.z - b.z) > limit * limit

\* the initialState message for a new socket
InitialState(id, ps, cs) ==
    [type |-> "initialState", player |-> ps[id], players |-> ps, cars |-> cs]

\* new Player(id, true) placed by the initialState handler
NewLocalPlayer(id, state) ==
    [id |-> id, position |-> state.player.p, yaw |-> state.player.y,
     isDriving |-> FALSE, vehicleId |-> Null]

\* Player.update(deltaTime, input): the on-foot rule of the server, with the
\* command's own deltaTime
PlayerUpdate(lp, deltaTime, input) ==
    LET speed == MAX_PLAYER_SPEED * (IF input.shift THEN 2 ELSE 1)
        mvz == (IF input.forward THEN 0 - speed ELSE 0) + (IF input.backward THEN speed ELSE 0)
        mvx == (IF input.left THEN 0 - speed ELSE 0) + (IF input.right THEN speed ELSE 0)
        moveX == TDiv(mvx * Cos(lp.yaw) - mvz * Sin(lp.yaw), 1000)
        moveZ == TDiv(mvx * Sin(lp.yaw) + mvz * Cos(lp.yaw), 1000)
    IN  [lp EXCEPT !.position = [x |-> lp.position.x + moveX * deltaTime,
                                 y |-> lp.position.y,
                                 z |-> lp.position.z + moveZ * deltaTime]]

\* Player.applySnapshot / addRemotePlayer: the remote player holds the entry
RemoteEntry(entry) ==
    [p |-> entry.p, y |-> entry.y, d |-> entry.d, vId |-> entry.vId]

\* Player.applySnapshot, the sample it buffers for interpolation: the entry
\* carries no timestamp, the sample is stamped with the time of its receipt
Sample(entry, now) == [timestamp |-> now, p |-> entry.p, y |-> entry.y]

\* Player.applySnapshot, the buffer: a sample is appended unless the buffer
\* holds one of the same timestamp
BufferAppend(buffer, entry, now) ==
    IF \E i \in 1..Len(buffer) : buffer[i].timestamp = now
    THEN buffer
    ELSE Append(buffer, Sample(entry, now))

\* the positionBuffer of remote player id: empty for a player just added
BufferOf(id) == IF id \in DOMAIN positionBuffer THEN positionBuffer[id] ELSE <<>>

\* Car.applySnapshot: the car holds the entry
CarEntry(entry) == [p |-> entry.p, y |-> entry.y, s |-> entry.s, dId |-> entry.dId]

\* the loop over pendingInputs in handleSnapshot: r.lp is the local player,
\* r.pending the buffer, i the index (from 1)
RECURSIVE ReplayPending(_, _, _)
ReplayPending(r, i, ack) ==
    IF i > Len(r.pending) THEN r
    ELSE IF Leq(r.pending[i].sequence, ack)
         THEN ReplayPending(
                [r EXCEPT !.pending = SubSeq(@, 1, i - 1) \o SubSeq(@, i + 1, Len(@))],
                i, ack)
         ELSE ReplayPending(
                [r EXCEPT !.lp = PlayerUpdate(@, r.pending[i].deltaTime, r.pending[i])],
                i + 1, ack)

\* step 2 of handleSnapshot snapping to the entry of every snapshot, with
\* neither the guard on the acknowledgment nor the threshold on the error
ReconcileAlwaysSnap(lp, pending, snapshot) ==
    IF ~lp.isDriving /\ lp.id \in DOMAIN snapshot.players
    THEN ReplayPending(
            [lp |-> [lp EXCEPT !.position = snapshot.players[lp.id].p,
                               !.yaw = snapshot.players[lp.id].y],
             pending |-> pending],
            1, snapshot.players[lp.id].lastProcessedInput)
    ELSE [lp |-> lp, pending |-> pending]

\* step 2 of handleSnapshot: the local player and the pending buffer after it
Reconcile(lp, pending, snapshot) ==
    IF /\ ~lp.isDriving
       /\ Truthy(Field(lp, "inputSequence"))
       /\ Truthy(Field(snapshot, "lastProcessedInput"))
       /\ lp.id \in DOMAIN snapshot.players
       /\ DistanceAbove(lp.position, snapshot.players[lp.id].p, PosScale)
    THEN ReplayPending(
            [lp |-> [lp EXCEPT !.position = snapshot.players[lp.id].p,
                               !.yaw = snapshot.players[lp.id].y],
             pending |-> pending],
            1, Field(snapshot, "lastProcessedInput"))
    ELSE [lp |-> lp, pending |-> pending]

\* socket.on('initialState')
HandleInitialState(state) ==
    /\ state \in net
    /\ state.type = "initialState"
    /\ net' = net \ {state}
    /\ localPlayer' = NewLocalPlayer(LocalId, state)
    /\ gameCars' = [c \in DOMAIN state.cars |-> CarEntry(state.cars[c])]
    /\ remotePlayers' = [id \in DOMAIN remotePlayers \cup (DOMAIN state.players \ {LocalId}) |->
                            IF id \in DOMAIN state.players
                            THEN RemoteEntry(state.players[id])
                            ELSE remotePlayers[id]]
    /\ positionBuffer' = [id \in DOMAIN remotePlayers \cup (DOMAIN state.players \ {LocalId}) |->
                            IF id \in DOMAIN state.players
                            THEN BufferAppend(<<>>, state.players[id], clock)
                            ELSE positionBuffer[id]]
    /\ last' = Did("initialState", LocalId, Null)
    /\ UNCHANGED <<players, cars, room, clock, ticks, accepted, replicaB, bootVars,
                   inputSequence, pendingInputs, serverStates, newest>>

\* handleSnapshot that adds and updates remote players and removes none
HandleSnapshotNoRemoval(snapshot) ==
    /\ snapshot \in net
    /\ snapshot.type = "gameSnapshot"
    /\ net' = net \ {snapshot}
    /\ last' = [Did("handleSnapshot", LocalId, Null) EXCEPT !.snap = <<snapshot>>]
    /\ IF localPlayer = NoLocal
       THEN UNCHANGED <<localPlayer, pendingInputs, serverStates, remotePlayers, positionBuffer,
                        gameCars, newest>>
       ELSE LET pushed == Append(serverStates, snapshot)
                r == Reconcile(localPlayer, pendingInputs, snapshot)
            IN  /\ serverStates' = IF Len(pushed) > MAX_STATE_BUFFER
                                   THEN SubSeq(pushed, Len(pushed) - MAX_STATE_BUFFER + 1,
                                               Len(pushed))
                                   ELSE pushed
                /\ localPlayer' = r.lp
                /\ pendingInputs' = r.pending
                /\ remotePlayers' =
                      [id \in DOMAIN remotePlayers \cup (DOMAIN snapshot.players \ {LocalId}) |->
                          IF id \in DOMAIN snapshot.players
                          THEN RemoteEntry(snapshot.players[id])
                          ELSE remotePlayers[id]]
                /\ positionBuffer' =
                      [id \in DOMAIN remotePlayers \cup (DOMAIN snapshot.players \ {LocalId}) |->
                          IF id \in DOMAIN snapshot.players
                          THEN BufferAppend(BufferOf(id), snapshot.players[id], clock)
                          ELSE positionBuffer[id]]
                /\ gameCars' = [c \in DOMAIN gameCars |->
                                    IF c \in DOMAIN snapshot.cars
                                    THEN CarEntry(snapshot.cars[c])
                                    ELSE gameCars[c]]
                /\ newest' = IF newest = <<>> \/ snapshot.timestamp > newest[1].timestamp
                             THEN <<snapshot>>
                             ELSE newest
    /\ UNCHANGED <<players, cars, room, clock, ticks, accepted, replicaB, bootVars, inputSequence>>

\* socket.on('gameSnapshot'): Networking.handleSnapshot
HandleSnapshot(snapshot) ==
    /\ snapshot \in net
    /\ snapshot.type = "gameSnapshot"
    /\ net' = net \ {snapshot}
    /\ last' = [Did("handleSnapshot", LocalId, Null) EXCEPT !.snap = <<snapshot>>]
    /\ IF localPlayer = NoLocal
       THEN UNCHANGED <<localPlayer, pendingInputs, serverStates, remotePlayers, positionBuffer,
                        gameCars, newest>>
       ELSE LET pushed == Append(serverStates, snapshot)
                r == Reconcile(localPlayer, pendingInputs, snapshot)
            IN  /\ serverStates' = IF Len(pushed) > MAX_STATE_BUFFER
                                   THEN SubSeq(pushed, Len(pushed) - MAX_STATE_BUFFER + 1,
                                               Len(pushed))
                                   ELSE pushed
                /\ localPlayer' = r.lp
                /\ pendingInputs' = r.pending
                /\ remotePlayers' = [id \in DOMAIN snapshot.players \ {LocalId} |->
                                        RemoteEntry(snapshot.players[id])]
                /\ positionBuffer' = [id \in DOMAIN snapshot.players \ {LocalId} |->
                                        BufferAppend(BufferOf(id), snapshot.players[id], clock)]
                /\ gameCars' = [c \in DOMAIN gameCars |->
                                    IF c \in DOMAIN snapshot.cars
                                    THEN CarEntry(snapshot.cars[c])
                                    ELSE gameCars[c]]
                /\ newest' = IF newest = <<>> \/ snapshot.timestamp > newest[1].timestamp
                             THEN <<snapshot>>
                             ELSE newest
    /\ UNCHANGED <<players, cars, room, clock, ticks, accepted, replicaB, bootVars, inputSequence>>

\* a frame whose sendInput numbers the command without keeping the new number
AnimateStaleSequence(keys, deltaTime) ==
    LET packet == InputPacket(keys, inputSequence + 1, deltaTime)
    IN  /\ localPlayer # NoLocal
        /\ localPlayer' = IF localPlayer.isDriving THEN localPlayer
                          ELSE PlayerUpdate(localPlayer, deltaTime, keys)
        /\ inputSequence' = inputSequence
        /\ pendingInputs' = Append(pendingInputs, packet)
        /\ OnClientInput(LocalId, packet)
        /\ UNCHANGED <<replicaB, bootVars, net, serverStates, remotePlayers, positionBuffer,
                       gameCars, newest>>

\* animate: one frame of the local player, with the keys held and the time
\* since the previous frame; the command goes to the server (sendInput, then
\* the server's clientInput handler)
Animate(keys, deltaTime) ==
    LET packet == InputPacket(keys, inputSequence + 1, deltaTime)
    IN  /\ localPlayer # NoLocal
        /\ localPlayer' = IF localPlayer.isDriving THEN localPlayer
                          ELSE PlayerUpdate(localPlayer, deltaTime, keys)
        /\ inputSequence' = inputSequence + 1
        /\ pendingInputs' = Append(pendingInputs, packet)
        /\ OnClientInput(LocalId, packet)
        /\ UNCHANGED <<replicaB, bootVars, net, serverStates, remotePlayers, positionBuffer,
                       gameCars, newest>>

\* a connection; the server answers the new socket with initialState
NetConnection(id, spawn) ==
    /\ OnConnection(id, spawn)
    /\ net' = IF id = LocalId THEN net \cup {InitialState(id, players', cars)} ELSE net
    /\ UNCHANGED <<replicaB, bootVars, localPlayer, inputSequence, pendingInputs, serverStates,
                   remotePlayers, positionBuffer, gameCars, newest>>

\* gameLoop; the snapshot goes to every socket in the room
NetGameLoop(deltaTime) ==
    /\ GameLoop(deltaTime)
    /\ net' = IF LocalId \in room
              THEN net \cup {[type |-> "gameSnapshot",
                              players |-> last'.snap[1].players,
                              cars |-> last'.snap[1].cars,
                              timestamp |-> last'.snap[1].timestamp]}
              ELSE net
    /\ UNCHANGED <<replicaB, bootVars, localPlayer, inputSequence, pendingInputs, serverStates,
                   remotePlayers, positionBuffer, gameCars, newest>>

\* the other player, who comes and goes
RemoteId == "p2"

InitNet ==
    /\ InitServer
    /\ InitClient
    /\ InitBooted
    /\ replicaB = <<>>

NextNet ==
    \/ \E id \in SocketIds, spawn \in SpawnPoints : NetConnection(id, spawn)
    \/ \E dt \in TickIntervals : NetGameLoop(dt)
    \/ \E m \in net : HandleInitialState(m)
    \/ \E m \in net : HandleSnapshot(m)
    \/ \E k \in KeySets, dt \in FrameDeltas : Animate(k, dt)
    \/ OnDisconnect(RemoteId) /\ UNCHANGED <<clientVars, replicaB, bootVars>>

SpecNet == InitNet /\ [][NextNet]_vars

----------------------------------------------------------------------------
(* Reconciliation *)

\* the snapshot handled by the step, and the local player's entry in it
Handled(l) == l.snap[1]

\* the pending commands the server has not acknowledged
Unacked(pending, ack) == SelectSeq(pending, LAMBDA c : c.sequence > ack)

\* the shared physics rule applied to the commands in order
RECURSIVE ReplayAll(_, _)
ReplayAll(lp, cmds) ==
    IF cmds = <<>> THEN lp
    ELSE ReplayAll(PlayerUpdate(lp, Head(cmds).deltaTime, Head(cmds)), Tail(cmds))

\* a snapshot is handled for the local player, on foot for the client and for
\* the server
HandledOnFoot ==
    /\ last'.op = "handleSnapshot"
    /\ localPlayer # NoLocal
    /\ ~localPlayer.isDriving
    /\ LocalId \in DOMAIN Handled(last').players
    /\ ~Handled(last').players[LocalId].d

\* C8: when a snapshot arrives for the on-foot local player whose predicted
\* position is more than 1.0 away from the snapshot's, then after
\* handleSnapshot the local position is the snapshot position with every
\* pending command of sequence above the acknowledged one replayed on it in
\* order, and no acknowledged command is replayed.
ReconcileConverges ==
    [][(/\ HandledOnFoot
        /\ DistanceAbove(localPlayer.position, Handled(last').players[LocalId].p, PosScale))
       => LET entry == Handled(last').players[LocalId]
              rest == Unacked(pendingInputs, entry.lastProcessedInput)
          IN  localPlayer'.position =
                 ReplayAll([localPlayer EXCEPT !.position = entry.p, !.yaw = entry.y],
                           rest).position]_vars

\* C9: after a snapshot is handled for the on-foot local player, pendingInputs
\* holds no command of sequence at most the lastProcessedInput reported for
\* that player, whatever the position error.
PendingTrimmed ==
    [][HandledOnFoot
       => \A i \in 1..Len(pendingInputs') :
             pendingInputs'[i].sequence > Handled(last').players[LocalId].lastProcessedInput]_vars

\* C10: the set of remote players, their state and the vehicles' state are
\* those of the snapshot of greatest timestamp handled so far; a snapshot older
\* than one already applied changes nothing.
LatestWins ==
    (last.op = "handleSnapshot" /\ newest # <<>>)
    => /\ DOMAIN remotePlayers = DOMAIN newest[1].players \ {LocalId}
       /\ \A id \in DOMAIN remotePlayers :
             remotePlayers[id] = RemoteEntry(newest[1].players[id])
       /\ \A c \in DOMAIN gameCars : gameCars[c] = CarEntry(newest[1].cars[c])

----------------------------------------------------------------------------
(* Snapshots *)

\* C11: every execution of gameLoop emits exactly one gameSnapshot, assembled
\* after the physics step of that tick: its players map has exactly the ids of
\* state.players, its cars map has every vehicle, and each entry holds the
\* position, yaw and occupancy fields as they are after the step.
SnapshotAfterStep ==
    last.op = "tick" =>
        /\ Len(last.snap) = 1
        /\ DOMAIN last.snap[1].players = DOMAIN players
        /\ DOMAIN last.snap[1].cars = DOMAIN cars
        /\ \A id \in DOMAIN players :
              /\ last.snap[1].players[id].p = players[id].p
              /\ last.snap[1].players[id].y = players[id].y
              /\ last.snap[1].players[id].d = players[id].d
              /\ last.snap[1].players[id].vId = players[id].vId
        /\ \A c \in DOMAIN cars :
              /\ last.snap[1].cars[c].p = cars[c].p
              /\ last.snap[1].cars[c].y = cars[c].y
              /\ last.snap[1].cars[c].dId = cars[c].dId

\* a tick in which a player on foot walked and a driven car moved
SnapshotOfMovedWorld ==
    /\ last.op = "tick"
    /\ \E id \in DOMAIN players : last.pPop[id] # <<>> /\ players[id].p \notin SpawnPoints
    /\ \E c \in DOMAIN cars : cars[c].dId # Null /\ cars[c].p # CarStart

\* C12: every gameSnapshot carries, in the entry of each player and of each
\* vehicle, that entity's current lastProcessedInput.
AckInEveryEntry ==
    last.op = "tick" =>
        /\ \A id \in DOMAIN players :
              Field(last.snap[1].players[id], "lastProcessedInput")
                 = players[id].lastProcessedInput
        /\ \A c \in DOMAIN cars :
              Field(last.snap[1].cars[c], "lastProcessedInput")
                 = cars[c].lastProcessedInput

\* C13: removal by absence.  A snapshot holds exactly the players connected
\* when it is produced, so none that has disconnected; and after the client
\* has processed a snapshot its remote players are that snapshot's player ids
\* minus its own id.
RemovalByAbsence ==
    /\ last.op = "tick" => DOMAIN last.snap[1].players = room
    /\ (last.op = "handleSnapshot" /\ localPlayer # NoLocal) =>
          DOMAIN remotePlayers = DOMAIN last.snap[1].players \ {LocalId}

\* the client knew the remote player from an earlier snapshot and has now
\* processed one produced after that player disconnected
RemotePlayerDropped ==
    /\ last.op = "handleSnapshot"
    /\ localPlayer # NoLocal
    /\ RemoteId \notin room
    /\ RemoteId \notin DOMAIN last.snap[1].players
    /\ \E i \in 1..(Len(serverStates) - 1) : RemoteId \in DOMAIN serverStates[i].players
    /\ RemoteId \notin DOMAIN remotePlayers

----------------------------------------------------------------------------
(* Consumption of commands by a tick *)

\* the on-foot rule applied to the first n commands of cmds, oldest first
RECURSIVE ApplyInOrder(_, _, _, _)
ApplyInOrder(player, cmds, n, deltaTime) ==
    IF n = 0 THEN player
    ELSE PlayerStep(ApplyInOrder(player, cmds, n - 1, deltaTime), cmds[n], deltaTime)

\* C14: on each tick, for every player with d = false, all the commands of the
\* player's queue are consumed in the order they were received, none merged
\* and none skipped: the queue is empty after the tick and the player is where
\* the commands applied in arrival order put it.
QueueDrainedInOrder ==
    [][last'.op = "tick" =>
        \A id \in DOMAIN players :
            ~players[id].d =>
                /\ last'.pPop[id] = players[id].pInputs
                /\ players'[id].pInputs = <<>>
                /\ players'[id] =
                      [ApplyInOrder(players[id], players[id].pInputs,
                                    Len(players[id].pInputs), last'.dt)
                          EXCEPT !.pInputs = <<>>]]_vars

\* a tick consumed two different commands of a player on foot
TwoCommandsDrained ==
    /\ last.op = "tick"
    /\ \E id \in DOMAIN players :
          /\ ~players[id].d
          /\ Len(last.pPop[id]) = 2
          /\ last.pPop[id][1] # last.pPop[id][2]
          /\ players[id].lastProcessedInput = last.pPop[id][2].sequence

\* C15: on each tick, for every vehicle with a driver, exactly one command,
\* the head of the driver's queue, is removed when the queue holds n >= 1
\* commands, leaving n - 1, and the vehicle is advanced by exactly one physics
\* step whatever the depth of the queue.
OneCommandPerVehicleTick ==
    [][last'.op = "tick" =>
        \A c \in DOMAIN cars :
            cars[c].dId \in DOMAIN players =>
                LET q == players[cars[c].dId].pInputs
                IN  /\ players'[cars[c].dId].pInputs = IF q = <<>> THEN q ELSE Tail(q)
                    /\ last'.cPop[c] = IF q = <<>> THEN q ELSE <<Head(q)>>
                    /\ cars'[c] = CarStep(cars[c], IF q = <<>> THEN DefaultInput ELSE Head(q),
                                          last'.dt)]_vars

\* a tick took one command for a driven car and left another in the queue
DriverQueueLeftOver ==
    /\ last.op = "tick"
    /\ \E c \in DOMAIN cars :
          /\ cars[c].dId \in DOMAIN players
          /\ last.cPop[c] # <<>>
          /\ Len(players[cars[c].dId].pInputs) = 1
          /\ cars[c].s # 0

\* C16: after the player branch consumes a command the player's
\* lastProcessedInput is the command's sequence; after the vehicle branch
\* consumes a command the vehicle's lastProcessedInput is the command's
\* sequence and the driver's own lastProcessedInput is unchanged.
AckIsSequenceConsumed ==
    [][last'.op = "tick" =>
        /\ \A id \in DOMAIN players :
              last'.pPop[id] # <<>> =>
                  players'[id].lastProcessedInput
                     = last'.pPop[id][Len(last'.pPop[id])].sequence
        /\ \A c \in DOMAIN cars :
              last'.cPop[c] # <<>> =>
                  /\ cars'[c].lastProcessedInput = last'.cPop[c][1].sequence
                  /\ players'[cars[c].dId].lastProcessedInput
                        = players[cars[c].dId].lastProcessedInput]_vars

\* the car acknowledges a command of its driver, whose own acknowledgment is
\* that of an earlier command consumed on foot
CarAcknowledged ==
    /\ last.op = "tick"
    /\ \E c \in DOMAIN cars :
          /\ last.cPop[c] # <<>>
          /\ cars[c].lastProcessedInput = last.cPop[c][1].sequence
          /\ cars[c].dId \in DOMAIN players
          /\ players[cars[c].dId].lastProcessedInput \notin {0, cars[c].lastProcessedInput}

----------------------------------------------------------------------------
(* Anti-teleport *)

\* the player after the commands cmds, each one moved and then put back on the
\* last accepted position when it went too fast
RECURSIVE Sanitised(_, _, _)
Sanitised(player, cmds, deltaTime) ==
    IF cmds = <<>> THEN player
    ELSE LET m == Moved(player, Head(cmds), deltaTime)
             at == IF TooFast(player, m, deltaTime)
                   THEN [x |-> player.lastP.x, z |-> player.lastP.z]
                   ELSE [x |-> m.x, z |-> m.z]
         IN  Sanitised([player EXCEPT !.p = [x |-> at.x, y |-> m.y, z |-> at.z],
                                      !.lastP = at,
                                      !.lastProcessedInput = Head(cmds).sequence],
                       Tail(cmds), deltaTime)

\* C18: when an on-foot command leaves the player farther from lastP than
\* 2 x MAX_PLAYER_SPEED times the step time, x and z go back to lastP; only
\* that command is rejected: the player stays connected, lastProcessedInput
\* advances to the command's sequence, and the commands queued behind it are
\* processed normally.
AntiTeleportReverts ==
    [][last'.op = "tick" =>
        \A id \in DOMAIN players :
            (~players[id].d /\ players[id].pInputs # <<>>) =>
                LET q == players[id].pInputs
                    after == Sanitised(players[id], q, last'.dt)
                IN  /\ id \in DOMAIN players' /\ id \in room'
                    /\ players'[id].p = after.p
                    /\ players'[id].lastP = after.lastP
                    /\ players'[id].lastProcessedInput = q[Len(q)].sequence
                    /\ players'[id].pInputs = <<>>]_vars

\* a tick rejected the first command of a player who had left the car, then
\* moved the player by the second command from the last accepted position
SecondCommandAfterRejection ==
    /\ last.op = "tick"
    /\ \E id \in DOMAIN players, spawn \in SpawnPoints :
          /\ Len(last.pPop[id]) = 2
          /\ players[id].p = Moved(NewPlayer(spawn), last.pPop[id][2], last.dt)
          /\ players[id].p # spawn
          /\ players[id].lastProcessedInput = last.pPop[id][2].sequence

----------------------------------------------------------------------------
(* Life of a command: one client that numbers its commands 1, 2, ... as
   sendInput does, and a timer that keeps firing *)

\* the timer fires for ever; the model follows it for MaxTicks ticks and, past
\* that, for as long as a command is queued
TimerDue ==
    ticks < MaxTicks \/ \E id \in DOMAIN players : players[id].pInputs # <<>>

\* gameLoop, run by the timer
LiveGameLoop(deltaTime) ==
    LET r == SimulatePhysics(players, cars, deltaTime)
        ps1 == SimulatePlayers(players, deltaTime)
    IN  /\ TimerDue
        /\ players' = r.players
        /\ cars' = r.cars
        /\ clock' = clock + deltaTime
        /\ ticks' = ticks + 1
        /\ last' = [op |-> "tick", id |-> Null, arg |-> Null, dt |-> deltaTime,
                    pPop |-> PlayerPops(players, ps1),
                    cPop |-> [c \in DOMAIN cars |-> CarTakes(ps1, cars[c])],
                    snap |-> <<Snapshot(r.players, r.cars, clock + deltaTime)>>]
        /\ UNCHANGED <<room, accepted, clientVars, replicaB, bootVars>>

\* the client's next command: sequence numbers count up from 1
LiveInput(id, keys, deltaTime) ==
    /\ OnClientInput(id, InputPacket(keys, accepted + 1, deltaTime))
    /\ UNCHANGED <<clientVars, replicaB, bootVars>>

NextLive ==
    \/ \E spawn \in SpawnPoints : OnConnection(LocalId, spawn) /\ UNCHANGED <<clientVars, replicaB, bootVars>>
    \/ \E k \in KeySets, dt \in InputDeltas : LiveInput(LocalId, k, dt)
    \/ OnClientAction(LocalId, "enterVehicle", "car1") /\ UNCHANGED <<clientVars, replicaB, bootVars>>
    \/ OnClientAction(LocalId, "exitVehicle", Null) /\ UNCHANGED <<clientVars, replicaB, bootVars>>
    \/ OnDisconnect(LocalId) /\ UNCHANGED <<clientVars, replicaB, bootVars>>
    \/ \E dt \in TickIntervals : LiveGameLoop(dt)

\* the step the timer takes: gameLoop is the only handler that counts a tick
TimerFires ==
    /\ TimerDue
    /\ ticks' = ticks + 1

\* setInterval keeps calling gameLoop: a tick that stays due is taken
SpecLive ==
    /\ Init
    /\ [][NextLive]_vars
    /\ WF_ticks(TimerFires)

\* the command of sequence k is in the queue of a connected player
InQueue(k) ==
    \E id \in DOMAIN players :
        \E i \in 1..Len(players[id].pInputs) : players[id].pInputs[i].sequence = k

\* what the car branch took from the queue of player id in the last tick
TakenByCar(l, cs, id) ==
    IF \E c \in DOMAIN cs : cs[c].dId = id /\ l.cPop[c] # <<>>
    THEN l.cPop[CHOOSE c \in DOMAIN cs : cs[c].dId = id /\ l.cPop[c] # <<>>]
    ELSE <<>>

\* C17: every command accepted into a player's queue is consumed exactly
\* once.  A tick takes commands from the head of a queue by one branch only
\* and what it takes is gone from the queue; no other handler takes a command
\* from a player who stays; and while ticks keep occurring a queued command
\* is eventually out of the queue (consumed, or its player disconnected).
ConsumedExactlyOnce ==
    /\ [][/\ last'.op = "tick" =>
                \A id \in DOMAIN players :
                    /\ last'.pPop[id] = <<>> \/ TakenByCar(last', cars, id) = <<>>
                    /\ last'.pPop[id] \o TakenByCar(last', cars, id) \o players'[id].pInputs
                          = players[id].pInputs
          /\ last'.op # "tick" =>
                \A id \in DOMAIN players \cap DOMAIN players' :
                    /\ Len(players'[id].pInputs) >= Len(players[id].pInputs)
                    /\ SubSeq(players'[id].pInputs, 1, Len(players[id].pInputs))
                          = players[id].pInputs]_vars
    /\ \A k \in 1..MaxInputs : InQueue(k) ~> ~InQueue(k)

\* a driver's second command was consumed by the car one tick after the first
CommandsConsumedByCar ==
    /\ last.op = "tick"
    /\ \E c \in DOMAIN cars :
          /\ last.cPop[c] # <<>>
          /\ last.cPop[c][1].sequence = 2
          /\ cars[c].dId \in DOMAIN players
          /\ players[cars[c].dId].pInputs = <<>>

----------------------------------------------------------------------------
(* The server process from module load: the HTTP entry point, the timer and
   the event loop.  A callback runs to completion before the next one starts;
   gameLoop is followed in two steps, its physics step and its snapshot. *)

\* no callback is in progress: the event loop may start the next one
Idle == running = 0

\* the entry point without its two guards: every request starts a timer
HttpRequestNoGuard ==
    /\ Idle
    /\ io' = TRUE
    /\ gameLoopInterval' = timers + 1
    /\ timers' = timers + 1
    /\ last' = Did("request", Null, Null)
    /\ UNCHANGED <<players, cars, room, clock, ticks, accepted, running,
                   clientVars, replicaB>>

\* module.exports(req, res): the first request creates the server, installs
\* the handlers and starts the timer; later requests are only answered
HttpRequest ==
    /\ Idle
    /\ io' = TRUE
    /\ IF ~io /\ gameLoopInterval = Null
       THEN /\ gameLoopInterval' = timers + 1
            /\ timers' = timers + 1
       ELSE UNCHANGED <<gameLoopInterval, timers>>
    /\ last' = Did("request", Null, Null)
    /\ UNCHANGED <<players, cars, room, clock, ticks, accepted, running,
                   clientVars, replicaB>>

\* a timer calls gameLoop: up to the end of simulatePhysics
GameLoopPhysics(deltaTime) ==
    LET r == SimulatePhysics(players, cars, deltaTime)
        ps1 == SimulatePlayers(players, deltaTime)
    IN  /\ Idle
        /\ timers > 0
        /\ ticks < MaxTicks
        /\ running' = running + 1
        /\ players' = r.players
        /\ cars' = r.cars
        /\ clock' = clock + deltaTime
        /\ last' = [op |-> "physics", id |-> Null, arg |-> Null, dt |-> deltaTime,
                    pPop |-> PlayerPops(players, ps1),
                    cPop |-> [c \in DOMAIN cars |-> CarTakes(ps1, cars[c])],
                    snap |-> <<>>]
        /\ UNCHANGED <<room, ticks, accepted, io, gameLoopInterval, timers,
                       clientVars, replicaB>>

\* the rest of gameLoop: the snapshot is assembled and emitted
GameLoopSnapshot ==
    /\ running > 0
    /\ running' = running - 1
    /\ ticks' = ticks + 1
    /\ last' = [last EXCEPT !.op = "tick", !.snap = <<Snapshot(players, cars, clock)>>]
    /\ UNCHANGED <<players, cars, room, clock, accepted, io, gameLoopInterval, timers,
                   clientVars, replicaB>>

\* a socket handler, installed by setupHandlers, run by the event loop
Handler(A) ==
    /\ io
    /\ Idle
    /\ A
    /\ UNCHANGED <<clientVars, replicaB, bootVars>>

InitBoot ==
    /\ InitServer
    /\ InitClient
    /\ replicaB = <<>>
    /\ io = FALSE
    /\ gameLoopInterval = Null
    /\ timers = 0
    /\ running = 0

NextBoot ==
    \/ HttpRequest
    \/ \E dt \in TickIntervals : GameLoopPhysics(dt)
    \/ GameLoopSnapshot
    \/ \E spawn \in SpawnPoints : Handler(OnConnection(LocalId, spawn))
    \/ \E k \in KeySets, dt \in InputDeltas :
            Handler(OnClientInput(LocalId, InputPacket(k, accepted + 1, dt)))
    \/ Handler(OnClientAction(LocalId, "enterVehicle", "car1"))
    \/ Handler(OnClientAction(LocalId, "exitVehicle", Null))
    \/ Handler(OnDisconnect(LocalId))

SpecBoot == InitBoot /\ [][NextBoot]_vars

\* C19: ticks form one serial sequence: however many times the HTTP entry
\* point is invoked at most one tick timer is started, no two executions of
\* gameLoop overlap, and clientInput, enterVehicle, exitVehicle and disconnect
\* (and connection) take effect only between ticks: while a gameLoop is
\* between its physics step and its end, the last thing that took effect is
\* that physics step.
TicksAreSerial ==
    /\ timers <= 1
    /\ running <= 1
    /\ running > 0 => last.op = "physics"
    /\ last.op \in {"connection", "clientInput", "enterVehicle", "exitVehicle",
                    "disconnect", "request"} => running = 0

\* the entry point was invoked again after ticks had run and a player had
\* sent a command
RequestAfterTicks ==
    /\ last.op = "request"
    /\ ticks > 0
    /\ accepted > 0
    /\ timers = 1

----------------------------------------------------------------------------
(* Prediction of the driven car on the client: Car.update of src/src/car.js,
   called by animate, next to the car branch of simulatePhysics.  Client
   velocities are in mm/s, rotation in microradians, angular velocity in
   microradians per second. *)

\* MAX_SPEED = 20 units/second
MAX_SPEED == 20
\* ACCELERATION = 25 units/second^2
ACCELERATION == 25
\* DRAG = 0.98, in hundredths
DRAG == 98
\* ANGULAR_DRAG = 0.9, in tenths
ANGULAR_DRAG == 9
\* STEERING_SPEED = 0.05, in hundredths of a radian
STEERING_SPEED == 5
\* HANDBRAKE_DRAG = 0.85, in hundredths
HANDBRAKE_DRAG == 85

(* Frame times of the comparison, ms: 3 and 6 frames of 1/60 s, so that the
   exponent of Math.pow(drag, deltaSeconds * 60) is a whole number *)
CarDeltas == {50, 100}

(* Speeds of the car when the comparison starts, mm/s *)
StartSpeeds == {0, 600, 10000}

(* Keys held by the driver *)
CarKeySets ==
    { [forward |-> FALSE, backward |-> FALSE, left |-> FALSE, right |-> FALSE, shift |-> FALSE],
      [forward |-> TRUE,  backward |-> FALSE, left |-> FALSE, right |-> FALSE, shift |-> FALSE],
      [forward |-> TRUE,  backward |-> FALSE, left |-> TRUE,  right |-> FALSE, shift |-> FALSE],
      [forward |-> FALSE, backward |-> TRUE,  left |-> FALSE, right |-> TRUE,  shift |-> FALSE] }

\* Math.pow(base / 100, n) for a whole n, in millionths
RECURSIVE Pow(_, _)
Pow(base, n) == IF n = 0 THEN 1000000 ELSE (Pow(base, n - 1) * base) \div 100

\* the greatest r in lo..hi with r * r <= n
RECURSIVE SqrtBetween(_, _, _)
SqrtBetween(n, lo, hi) ==
    IF lo >= hi THEN lo
    ELSE LET mid == (lo + hi + 1) \div 2
         IN  IF mid * mid <= n THEN SqrtBetween(n, mid, hi) ELSE SqrtBetween(n, lo, mid - 1)

\* Vector3.length of a horizontal velocity
Length(v) == SqrtBetween(v.x * v.x + v.z * v.z, 0, 46340)

\* this.state of a new Car, put where the server's car is
CarState(pos, rotation, speed) ==
    [position |-> pos,
     rotation |-> rotation,
     velocity |-> [x |-> TDiv(Sin(rotation) * speed, 1000),
                   z |-> TDiv(Cos(rotation) * speed, 1000)],
     angularVelocity |-> 0,
     input |-> [forward |-> FALSE, backward |-> FALSE, left |-> FALSE, right |-> FALSE,
                handbrake |-> FALSE]]

\* Car.update(deltaSeconds): the keys are those of this.state.input
CarUpdate(state, deltaTime) ==
    LET throttle == (IF state.input.forward THEN ACCELERATION ELSE 0)
                    - (IF state.input.backward THEN ACCELERATION ELSE 0)
        v1 == [x |-> state.velocity.x + TDiv(Sin(state.rotation) * throttle * deltaTime, 1000),
               z |-> state.velocity.z + TDiv(Cos(state.rotation) * throttle * deltaTime, 1000)]
        drag == Pow(IF state.input.handbrake THEN HANDBRAKE_DRAG ELSE DRAG,
                    (deltaTime * 60) \div 1000)
        v2 == [x |-> TDiv(v1.x * (drag \div 1000), 1000),
               z |-> TDiv(v1.z * (drag \div 1000), 1000)]
        v3 == IF v2.x * v2.x + v2.z * v2.z > (MAX_SPEED * 1000) * (MAX_SPEED * 1000)
              THEN [x |-> TDiv(v2.x * MAX_SPEED * 1000, Length(v2)),
                    z |-> TDiv(v2.z * MAX_SPEED * 1000, Length(v2))]
              ELSE v2
        steering == (IF state.input.left THEN STEERING_SPEED ELSE 0)
                    - (IF state.input.right THEN STEERING_SPEED ELSE 0)
        \* steering * (speed / MAX_SPEED) * 2, in microradians per second
        av1 == IF v3.x * v3.x + v3.z * v3.z > 1000 * 1000
               THEN state.angularVelocity
                    + TDiv(steering * 10 * Length(v3) * 2, MAX_SPEED)
               ELSE state.angularVelocity
        av2 == TDiv(av1 * ANGULAR_DRAG, 10)
    IN  [state EXCEPT
            !.velocity = v3,
            !.angularVelocity = av2,
            !.rotation = state.rotation + TDiv(av2 * deltaTime, 1000),
            !.position = [x |-> state.position.x + TDiv(v3.x * deltaTime, 50),
                          y |-> (3 * PosScale) \div 5,
                          z |-> state.position.z + TDiv(v3.z * deltaTime, 50)]]

\* the driver is at the wheel of car1 on the server, and the client holds the
\* same car in the same state
InitCar ==
    /\ \E speed \in StartSpeeds :
          /\ cars = [InitCars EXCEPT !["car1"].dId = LocalId, !["car1"].s = speed]
          /\ gameCars = [c \in {"car1"} |-> CarState(CarStart, 0, speed)]
    /\ players = [id \in {LocalId} |->
                    [NewPlayer([x |-> 0, y |-> 0, z |-> 0]) EXCEPT
                        !.d = TRUE, !.vId = "car1", !.p = CarStart]]
    /\ room = {LocalId}
    /\ clock = 0
    /\ ticks = 0
    /\ accepted = 0
    /\ last = Did("init", Null, Null)
    /\ replicaB = <<>>
    /\ net = {}
    /\ localPlayer = [id |-> LocalId, position |-> CarStart, yaw |-> 0,
                      isDriving |-> TRUE, vehicleId |-> "car1"]
    /\ inputSequence = 0
    /\ pendingInputs = <<>>
    /\ serverStates = <<>>
    /\ remotePlayers = <<>>
    /\ positionBuffer = <<>>
    /\ newest = <<>>
    /\ InitBooted

\* one frame of a driving client and the server's step for the command of
\* that frame, with the same deltaTime: animate calls
\* car.update(game.deltaTime, getCurrentInput()) and sends the command; the
\* server's car branch applies it
DriveFrame(keys, deltaTime) ==
    LET packet == InputPacket(keys, inputSequence + 1, deltaTime)
    IN  /\ ticks < MaxTicks
        /\ localPlayer.isDriving
        /\ gameCars' = [c \in DOMAIN gameCars |->
                          IF c = localPlayer.vehicleId
                          THEN CarUpdate(gameCars[c], deltaTime)
                          ELSE gameCars[c]]
        /\ inputSequence' = inputSequence + 1
        /\ pendingInputs' = Append(pendingInputs, packet)
        /\ cars' = SimulatePhysics(
                      [players EXCEPT ![LocalId].pInputs = Append(@, packet)],
                      cars, deltaTime).cars
        /\ clock' = clock + deltaTime
        /\ ticks' = ticks + 1
        /\ last' = [Did("driveFrame", LocalId, Null) EXCEPT !.dt = deltaTime]
        /\ UNCHANGED <<players, room, accepted, replicaB, net, localPlayer, serverStates,
                       remotePlayers, positionBuffer, newest, bootVars>>

NextCar == \E k \in CarKeySets, dt \in CarDeltas : DriveFrame(k, dt)

SpecCar == InitCar /\ [][NextCar]_vars

\* C20: prediction and simulation are the same rule: from the same vehicle
\* state, with the same command and the same deltaTime, Car.update on the
\* client and the car branch of simulatePhysics on the server give the same
\* speed, yaw and horizontal position.
SamePhysicsRule ==
    \A c \in DOMAIN cars :
        /\ gameCars[c].velocity = [x |-> TDiv(Sin(cars[c].y) * cars[c].s, 1000),
                                   z |-> TDiv(Cos(cars[c].y) * cars[c].s, 1000)]
        /\ gameCars[c].rotation = cars[c].y
        /\ gameCars[c].position.x = cars[c].p.x
        /\ gameCars[c].position.z = cars[c].p.z

\* ---------------------------------------------------------------------
\* Interpolation of remote players
\* ---------------------------------------------------------------------

INTERPOLATION_DELAY == 100

\* the times of the frames that render remote players
FrameTimes == {133, 150, 166}

\* the loop over the buffer that takes every pair whose first sample is not
\* after renderTime
BracketNoUpper(buffer, renderTime) ==
    LET found == {i \in 1..(Len(buffer) - 1) : buffer[i].timestamp <= renderTime}
    IN  IF found = {} THEN <<>>
        ELSE LET i == CHOOSE j \in found : \A k \in found : j <= k
             IN  <<buffer[i], buffer[i + 1]>>

\* interpolateRemoteStates, the loop over the buffer: the first pair of
\* neighbours [p1, p2] whose timestamps have renderTime between them
Bracket(buffer, renderTime) ==
    LET found == {i \in 1..(Len(buffer) - 1) :
                     /\ buffer[i].timestamp <= renderTime
                     /\ buffer[i + 1].timestamp >= renderTime}
    IN  IF found = {} THEN <<>>
        ELSE LET i == CHOOSE j \in found : \A k \in found : j <= k
             IN  <<buffer[i], buffer[i + 1]>>

\* interpolateRemoteStates, the factor handed to updateMesh: the quotient
\* (renderTime - p1.timestamp) / range as numerator and divisor, 0 over 1 when
\* no pair was found
Factor(buffer, renderTime) ==
    LET pair == Bracket(buffer, renderTime)
    IN  IF pair = <<>>
        THEN [found |-> FALSE, num |-> 0, range |-> 1]
        ELSE [found |-> TRUE,
              num |-> renderTime - pair[1].timestamp,
              range |-> pair[2].timestamp - pair[1].timestamp]

\* interpolateRemoteStates(time), the remote players: a frame at time
InterpolateRemoteStates(time) ==
    LET renderTime == time - INTERPOLATION_DELAY
    IN  /\ time >= clock
        /\ DOMAIN positionBuffer # {}
        /\ last' = [Did("interpolate", LocalId, Null) EXCEPT
                        !.dt = renderTime,
                        !.snap = <<[id \in DOMAIN positionBuffer |->
                                        Factor(positionBuffer[id], renderTime)]>>]
        /\ UNCHANGED <<players, cars, room, clock, ticks, accepted, clientVars, replicaB,
                       bootVars>>

\* the transport delivers a second copy of the snapshot handled last
Duplicate(m) ==
    /\ last.op = "handleSnapshot"
    /\ m = last.snap[1]
    /\ m \notin net
    /\ localPlayer # NoLocal
    /\ net' = net \cup {m}
    /\ UNCHANGED <<serverVars, replicaB, bootVars, localPlayer, inputSequence,
                   pendingInputs, serverStates, remotePlayers, positionBuffer, gameCars,
                   newest>>

NextInterp ==
    \/ \E id \in SocketIds, spawn \in SpawnPoints : NetConnection(id, spawn)
    \/ \E dt \in TickIntervals : NetGameLoop(dt)
    \/ \E m \in net : HandleInitialState(m)
    \/ \E m \in net : HandleSnapshot(m)
    \/ last.op = "handleSnapshot" /\ Duplicate(last.snap[1])
    \/ \E time \in FrameTimes : InterpolateRemoteStates(time)

SpecInterp == InitNet /\ [][NextInterp]_vars

SnapshotIdempotent ==
    [][\A m \in net :
          (/\ last.op = "handleSnapshot"
           /\ m = last.snap[1]
           /\ localPlayer # NoLocal
           /\ HandleSnapshot(m))
          => /\ serverStates' = serverStates
             /\ positionBuffer' = positionBuffer]_vars

\* ---------------------------------------------------------------------
\* A walk straight ahead
\* ---------------------------------------------------------------------

ForwardOnly ==
    [forward |-> TRUE, backward |-> FALSE, left |-> FALSE, right |-> FALSE, shift |-> FALSE]

\* socket.on('clientInput') of a client that holds the forward key: up to
\* MaxWalk commands
WalkInput(id, deltaTime) ==
    /\ id \in room
    /\ id \in DOMAIN players
    /\ accepted < MaxWalk
    /\ players' = [players EXCEPT
                      ![id].pInputs = Append(@, InputPacket(ForwardOnly, accepted + 1, deltaTime))]
    /\ accepted' = accepted + 1
    /\ last' = Did("clientInput", id, Null)
    /\ UNCHANGED <<cars, room, clock, ticks, clientVars, replicaB, bootVars>>

NextWalk ==
    \/ \E spawn \in SpawnPoints :
          OnConnection(LocalId, spawn) /\ UNCHANGED <<clientVars, replicaB, bootVars>>
    \/ \E dt \in TickIntervals : WalkInput(LocalId, dt)
    \/ \E dt \in TickIntervals : GameLoop(dt) /\ UNCHANGED <<clientVars, replicaB, bootVars>>

SpecWalk == Init /\ [][NextWalk]_vars

\* the tick just executed took the commands 1 to 10 off the queue of the
\* player, who had stood at the origin with yaw 0 since connecting
TenForwardSimulated ==
    /\ last.op = "tick"
    /\ LocalId \in DOMAIN players
    /\ Len(last.pPop[LocalId]) = 10
    /\ last.pPop[LocalId][1].sequence = 1
    /\ players[LocalId].y = 0

DriveSpeeds == {0, 60800, 0 - 60800}

\* keys held by the driver
DriveKeySets ==
    { [forward |-> TRUE,  backward |-> FALSE, left |-> TRUE,  right |-> FALSE, shift |-> FALSE],
      [forward |-> FALSE, backward |-> TRUE,  left |-> FALSE, right |-> TRUE,  shift |-> FALSE],
      [forward |-> FALSE, backward |-> FALSE, left |-> TRUE,  right |-> FALSE, shift |-> FALSE] }

InitDrive ==
    /\ players = <<>>
    /\ \E s0 \in DriveSpeeds : cars = [InitCars EXCEPT !["car1"].s = s0]
    /\ room = {}
    /\ clock = 0
    /\ ticks = 0
    /\ accepted = 0
    /\ last = Did("init", Null, Null)
    /\ InitClient
    /\ InitBooted
    /\ replicaB = <<>>

NextDrive ==
    \/ \E spawn \in SpawnPoints :
          OnConnection(LocalId, spawn) /\ UNCHANGED <<clientVars, replicaB, bootVars>>
    \/ \E k \in DriveKeySets, dt \in InputDeltas : LiveInput(LocalId, k, dt)
    \/ OnClientAction(LocalId, "enterVehicle", "car1")
          /\ UNCHANGED <<clientVars, replicaB, bootVars>>
    \/ OnClientAction(LocalId, "exitVehicle", Null)
          /\ UNCHANGED <<clientVars, replicaB, bootVars>>
    \/ \E dt \in TickIntervals : GameLoop(dt) /\ UNCHANGED <<clientVars, replicaB, bootVars>>

SpecDrive == InitDrive /\ [][NextDrive]_vars

\* C24: every vehicle's speed is within -MAX_CAR_SPEED and MAX_CAR_SPEED, and
\* a tick changes a vehicle's yaw only if the speed after the integration is
\* above 0.5 in absolute value
SpeedClampedYawGated ==
    /\ [](\A c \in DOMAIN cars :
            /\ 0 - MAX_CAR_SPEED * 1000 <= cars[c].s
            /\ cars[c].s <= MAX_CAR_SPEED * 1000)
    /\ [][\A c \in DOMAIN cars :
            cars'[c].y # cars[c].y => Abs(cars'[c].s) > MinSteerSpeed]_vars

\* a tick took a steering command for car1, the speed is at the cap and the
\* car has turned
TurnedAtTopSpeed ==
    /\ last.op = "tick"
    /\ last.cPop["car1"] # <<>>
    /\ Abs(cars["car1"].s) = MAX_CAR_SPEED * 1000
    /\ cars["car1"].y # 0

\* ---------------------------------------------------------------------
\* The local player alone: prediction, commands sent, snapshots handled
\* ---------------------------------------------------------------------

NextLocal ==
    \/ \E spawn \in SpawnPoints : NetConnection(LocalId, spawn)
    \/ \E dt \in TickIntervals : NetGameLoop(dt)
    \/ \E m \in net : HandleInitialState(m)
    \/ \E m \in net : HandleSnapshot(m)
    \/ \E k \in KeySets, dt \in FrameDeltas : Animate(k, dt)

SpecLocal == InitNet /\ [][NextLocal]_vars

\* C25: when a snapshot is handled for the on-foot local player whose
\* predicted position is within 1.0 of the snapshot's position for that
\* player, handleSnapshot leaves the local position and yaw as they were
NoSnapWithinThreshold ==
    [][(/\ HandledOnFoot
        /\ ~DistanceAbove(localPlayer.position, Handled(last').players[LocalId].p, PosScale))
       => /\ localPlayer'.position = localPlayer.position
          /\ localPlayer'.yaw = localPlayer.yaw]_vars

\* a snapshot was handled whose position for the local player differs from
\* the predicted one by less than 1.0, with a command still pending
SmallErrorHandled ==
    /\ last.op = "handleSnapshot"
    /\ localPlayer # NoLocal
    /\ ~localPlayer.isDriving
    /\ LocalId \in DOMAIN Handled(last).players
    /\ localPlayer.position # Handled(last).players[LocalId].p
    /\ ~DistanceAbove(localPlayer.position, Handled(last).players[LocalId].p, PosScale)
    /\ pendingInputs # <<>>

\* C26: the sequence numbers in pendingInputs are strictly increasing from
\* front to back, the newest of them is the last number given out, and the
\* commands the server has received and not yet consumed carry consecutive
\* numbers and are all in pendingInputs
SequencesInOrder ==
    /\ \A i, j \in 1..Len(pendingInputs) :
          i < j => pendingInputs[i].sequence < pendingInputs[j].sequence
    /\ pendingInputs # <<>> => pendingInputs[Len(pendingInputs)].sequence = inputSequence
    /\ LocalId \in DOMAIN players =>
          LET q == players[LocalId].pInputs
          IN  /\ \A i \in 1..(Len(q) - 1) : q[i + 1].sequence = q[i].sequence + 1
              /\ \A i \in 1..Len(q) : \E j \in 1..Len(pendingInputs) : pendingInputs[j] = q[i]

\* two commands were sent in a row: both wait in the server's queue and in
\* pendingInputs
TwoCommandsSent ==
    /\ LocalId \in DOMAIN players
    /\ Len(players[LocalId].pInputs) >= 2
    /\ Len(pendingInputs) >= 2
    /\ inputSequence >= 2

\* ---------------------------------------------------------------------
\* Routing of commands between the player branch and the car branch
\* ---------------------------------------------------------------------

\* socket.on('clientInput'); the command is marked with the mode of its
\* sender at receipt, a mark for the record that no handler reads
RoutedInput(id, keys, deltaTime) ==
    /\ id \in DOMAIN players
    /\ OnClientInput(id, [forward |-> keys.forward, backward |-> keys.backward,
                          left |-> keys.left, right |-> keys.right, shift |-> keys.shift,
                          sequence |-> accepted + 1, deltaTime |-> deltaTime,
                          driving |-> players[id].d])
    /\ UNCHANGED <<clientVars, replicaB, bootVars>>

NextRoute ==
    \/ \E spawn \in SpawnPoints :
          OnConnection(LocalId, spawn) /\ UNCHANGED <<clientVars, replicaB, bootVars>>
    \/ \E k \in KeySets, dt \in InputDeltas : RoutedInput(LocalId, k, dt)
    \/ OnClientAction(LocalId, "enterVehicle", "car1")
          /\ UNCHANGED <<clientVars, replicaB, bootVars>>
    \/ OnClientAction(LocalId, "exitVehicle", Null)
          /\ UNCHANGED <<clientVars, replicaB, bootVars>>
    \/ \E dt \in TickIntervals : GameLoop(dt) /\ UNCHANGED <<clientVars, replicaB, bootVars>>

SpecRoute == Init /\ [][NextRoute]_vars

\* C27: a tick's player branch applies no command received while its sender
\* was driving, and its car branch applies no command received while the
\* sender was on foot
RoutedByMode ==
    last.op = "tick" =>
        /\ \A id \in SocketIds : \A i \in 1..Len(last.pPop[id]) : ~last.pPop[id][i].driving
        /\ \A c \in DOMAIN last.cPop : \A i \in 1..Len(last.cPop[c]) : last.cPop[c][i].driving

\* ---------------------------------------------------------------------
\* The last accepted position
\* ---------------------------------------------------------------------

\* C28: at the start of a tick that processes on-foot commands of a player,
\* the player's lastP is the player's current (x, z)
LastPIsCurrent ==
    [][last'.op = "tick"
       => \A id \in DOMAIN players :
             last'.pPop[id] # <<>>
             => /\ players[id].lastP.x = players[id].p.x
                /\ players[id].lastP.z = players[id].p.z]_vars

\* ---------------------------------------------------------------------
\* The acknowledgment of a vehicle
\* ---------------------------------------------------------------------

\* C29: every vehicle's lastProcessedInput is a defined integer, 0 or the
\* sequence of a command
CarAckDefined ==
    \A c \in DOMAIN cars : cars[c].lastProcessedInput \in Nat

\* ---------------------------------------------------------------------
\* Occupancy as the client sees it
\* ---------------------------------------------------------------------

\* keydown of E: exitVehicle when the local player is driving, else
\* enterVehicle for a car the player is near (carId; Car.isNear decides)
KeyE(carId) ==
    /\ localPlayer # NoLocal
    /\ IF localPlayer.isDriving
       THEN OnClientAction(LocalId, "exitVehicle", Null)
       ELSE /\ carId \in DOMAIN gameCars
            /\ OnClientAction(LocalId, "enterVehicle", carId)
    /\ UNCHANGED <<clientVars, replicaB, bootVars>>

NextKey ==
    \/ \E spawn \in SpawnPoints : NetConnection(LocalId, spawn)
    \/ \E dt \in TickIntervals : NetGameLoop(dt)
    \/ \E m \in net : HandleInitialState(m)
    \/ \E m \in net : HandleSnapshot(m)
    \/ \E k \in KeySets, dt \in FrameDeltas : Animate(k, dt)
    \/ \E carId \in VehicleArgs : KeyE(carId)

SpecKey == InitNet /\ [][NextKey]_vars

\* C30: once the client has handled a snapshot, its local player's isDriving
\* and vehicleId are those of the snapshot's entry for that player
OccupancyMirrored ==
    (/\ last.op = "handleSnapshot"
     /\ localPlayer # NoLocal
     /\ LocalId \in DOMAIN Handled(last).players)
    => /\ localPlayer.isDriving = Handled(last).players[LocalId].d
       /\ localPlayer.vehicleId = Handled(last).players[LocalId].vId

\* ---------------------------------------------------------------------
\* The acknowledgment of a player over successive snapshots
\* ---------------------------------------------------------------------

\* C31: the lastProcessedInput a tick reports for a connected player is never
\* below the one the player had before that tick, whatever sequence numbers
\* the accepted commands carry
AckNeverDecreases ==
    [][last'.op = "tick"
       => \A id \in DOMAIN players :
             Handled(last').players[id].lastProcessedInput
                 >= players[id].lastProcessedInput]_vars

\* ---------------------------------------------------------------------
\* Vehicles without a driver
\* ---------------------------------------------------------------------

\* C32: a tick leaves every vehicle that has no driver as it was: position,
\* yaw, speed and lastProcessedInput
ParkedCarUntouched ==
    [][last'.op = "tick"
       => \A c \in DOMAIN cars :
             cars[c].dId = Null
             => /\ cars'[c].p = cars[c].p
                /\ cars'[c].y = cars[c].y
                /\ cars'[c].s = cars[c].s
                /\ cars'[c].lastProcessedInput = cars[c].lastProcessedInput
                /\ cars'[c].dId = Null]_vars

\* a tick has run over car1 after its driver, who had driven it with a
\* command, left it at speed
TickOverAbandonedCar ==
    /\ last.op = "tick"
    /\ cars["car1"].dId = Null
    /\ cars["car1"].s # 0
    /\ cars["car1"].lastProcessedInput > 0
    /\ LocalId \in DOMAIN players
    /\ ~players[LocalId].d

\* ---------------------------------------------------------------------
\* The room and its capacity
\* ---------------------------------------------------------------------

\* state.rooms[ROOM_ID].maxPlayers
maxPlayers == 10

\* socket ids of the clients that connect: one more than the room is meant
\* to hold
RoomSockets == {"c1", "c2", "c3", "c4", "c5", "c6", "c7", "c8", "c9", "c10", "c11"}

NextRoom ==
    \/ \E id \in RoomSockets, spawn \in SpawnPoints :
          OnConnection(id, spawn) /\ UNCHANGED <<clientVars, replicaB, bootVars>>
    \/ \E id \in RoomSockets : OnDisconnect(id) /\ UNCHANGED <<clientVars, replicaB, bootVars>>

SpecRoom == Init /\ [][NextRoom]_vars

\* C33: the room never holds more than maxPlayers players, and its player
\* set is the key set of state.players
RoomWithinCapacity ==
    /\ Cardinality(room) <= maxPlayers
    /\ room = DOMAIN players

\* ---------------------------------------------------------------------
\* The remote player as the client sees it: connections, disconnection,
\* ticks and the messages handled, the local player standing still
\* ---------------------------------------------------------------------

NextRemote ==
    \/ \E id \in SocketIds, spawn \in SpawnPoints : NetConnection(id, spawn)
    \/ \E dt \in TickIntervals : NetGameLoop(dt)
    \/ \E m \in net : HandleInitialState(m)
    \/ \E m \in net : HandleSnapshot(m)
    \/ OnDisconnect(RemoteId) /\ UNCHANGED <<clientVars, replicaB, bootVars>>

SpecRemote == InitNet /\ [][NextRemote]_vars

====
